---------------------------- MODULE Spec2Model ----------------------------
(***************************************************************************)
(* A model of the conflex configuration controller (conflex.go): the      *)
(* Load pipeline (sources -> merge -> schema -> custom validators -> bind  *)
(* -> Validate -> commit), the accessor layer (getValueFromMap and the     *)
(* typed getters) and the concurrent use of one instance.                  *)
(*                                                                         *)
(* Go strings are modelled as sequences of one-character strings, so that  *)
(* strings.Split, number parsing and formatting are computed rather than   *)
(* assumed.  A Go value of type any is a tagged record:                    *)
(*    [s |-> chars]   string        [i |-> n]     int                      *)
(*    [b |-> bool]    bool          [nil |-> TRUE] the nil interface       *)
(*    [m |-> f]       map[string]any, f a function from keys to values     *)
(*    [l |-> seq]     []any                                                *)
(***************************************************************************)
EXTENDS Integers, Sequences, FiniteSets, TLC

StrV(s) == [s |-> s]
IntV(n) == [i |-> n]
BoolV(x) == [b |-> x]
NilV == [nil |-> TRUE]
MapV(f) == [m |-> f]
ListV(q) == [l |-> q]

IsStr(v) == "s" \in DOMAIN v
IsInt(v) == "i" \in DOMAIN v
IsBool(v) == "b" \in DOMAIN v
IsNil(v) == "nil" \in DOMAIN v
IsMap(v) == "m" \in DOMAIN v
IsList(v) == "l" \in DOMAIN v

\* make(map[string]any): the map with no keys
EmptyMap == [k \in {} |-> NilV]

(***************************************************************************)
(* mergo.Merge(&dst, src, mergo.WithOverride) on map[string]any.           *)
(* For every key of src: a nil element overwrites; a map element is merged *)
(* recursively into a map already at that key of dst; every other element  *)
(* (scalar, slice, or a map meeting a non-map) replaces dst's element.     *)
(* Keys only dst has are kept.  A nil src map has no keys.                 *)
(***************************************************************************)
RECURSIVE deepMerge(_, _)
deepMerge(dst, src) ==
    [k \in (DOMAIN dst) \cup (DOMAIN src) |->
        IF k \notin DOMAIN src THEN dst[k]
        ELSE IF IsNil(src[k]) THEN src[k]
        ELSE IF IsMap(src[k]) /\ k \in DOMAIN dst /\ IsMap(dst[k])
             THEN MapV(deepMerge(dst[k].m, src[k].m))
        ELSE src[k]]

Merge_Shallow(dst, src) ==
    [k \in (DOMAIN dst) \cup (DOMAIN src) |-> IF k \in DOMAIN src THEN src[k] ELSE dst[k]]

Merge(dst, src) == deepMerge(dst, src)

(***************************************************************************)
(* strings.Split(s, sep) for a one-character separator: the substrings     *)
(* between separators, always at least one (possibly empty) substring.     *)
(***************************************************************************)
RECURSIVE Split(_, _)
Split(s, sep) ==
    IF \A n \in 1..Len(s) : s[n] # sep THEN <<s>>
    ELSE LET n == CHOOSE n \in 1..Len(s) :
                      s[n] = sep /\ \A j \in 1..(n - 1) : s[j] # sep
         IN  <<SubSeq(s, 1, n - 1)>> \o Split(SubSeq(s, n + 1, Len(s)), sep)

\* strings.ToLower, on the letters the model's keys are spelled with
LowerChar(c) ==
    LET upper == <<"A", "B", "C", "D", "E", "F", "G", "H", "I", "J", "K", "L", "M",
                   "N", "O", "P", "Q", "R", "S", "T", "U", "V", "W", "X", "Y", "Z">>
        lower == <<"a", "b", "c", "d", "e", "f", "g", "h", "i", "j", "k", "l", "m",
                   "n", "o", "p", "q", "r", "s", "t", "u", "v", "w", "x", "y", "z">>
    IN  IF \E n \in 1..Len(upper) : upper[n] = c
        THEN lower[CHOOSE n \in 1..Len(upper) : upper[n] = c]
        ELSE c

ToLower(s) == [n \in 1..Len(s) |-> LowerChar(s[n])]

(***************************************************************************)
(* The environment source.  OSEnvVar.Load keeps the entries of             *)
(* os.Environ() that start with the prefix, strips the prefix, joins them  *)
(* with newlines and hands the text to EnvVarCodec.Decode, which splits it *)
(* into lines again, each line at its first "=", and stores the value as a *)
(* string under the lower-cased key split at "_".                          *)
(***************************************************************************)
HasPrefix_Fold(s, prefix) ==
    Len(s) >= Len(prefix) /\ ToLower(SubSeq(s, 1, Len(prefix))) = ToLower(prefix)

HasPrefix(s, prefix) == Len(s) >= Len(prefix) /\ SubSeq(s, 1, Len(prefix)) = prefix

TrimPrefix(s, prefix) ==
    IF HasPrefix(s, prefix) THEN SubSeq(s, Len(prefix) + 1, Len(s)) ELSE s

RECURSIVE Join(_, _)
Join(elems, sep) ==
    IF elems = <<>> THEN <<>>
    ELSE IF Len(elems) = 1 THEN elems[1]
    ELSE elems[1] \o <<sep>> \o Join(Tail(elems), sep)

\* strings.SplitN(s, sep, 2): at most two substrings, cut at the first sep
SplitN2(s, sep) ==
    IF \E n \in 1..Len(s) : s[n] = sep
    THEN LET n == CHOOSE i \in 1..Len(s) : s[i] = sep /\ \A j \in 1..(i - 1) : s[j] # sep
         IN  <<SubSeq(s, 1, n - 1), SubSeq(s, n + 1, Len(s))>>
    ELSE <<s>>

\* a fold that leaves a scalar in the way where it is and drops the entry
RECURSIVE setParts_KeepScalar(_, _, _)
setParts_KeepScalar(current, parts, value) ==
    LET part == Head(parts)
    IN  IF Len(parts) > 1 /\ part \in DOMAIN current /\ ~IsMap(current[part])
        THEN current
        ELSE [k \in (DOMAIN current) \cup {part} |->
                IF k # part THEN current[k]
                ELSE IF Len(parts) = 1 THEN StrV(value)
                ELSE MapV(setParts_KeepScalar(
                         IF part \in DOMAIN current THEN current[part].m ELSE EmptyMap,
                         Tail(parts), value))]

\* EnvVarCodec.Decode, lines 80-94: walk (and create) the maps of the
\* non-final parts, a non-map in the way is replaced by a new map; the
\* final part is assigned the value
RECURSIVE setParts(_, _, _)
setParts(current, parts, value) ==
    LET part == Head(parts)
        next == IF part \in DOMAIN current /\ IsMap(current[part])
                THEN current[part].m ELSE EmptyMap
    IN  [k \in (DOMAIN current) \cup {part} |->
            IF k # part THEN current[k]
            ELSE IF Len(parts) = 1 THEN StrV(value)
            ELSE MapV(setParts(next, Tail(parts), value))]

RECURSIVE decodeLines_StopAtMalformed(_, _)
decodeLines_StopAtMalformed(conf, lines) ==
    IF lines = <<>> THEN conf
    ELSE LET pair == SplitN2(Head(lines), "=")
         IN  IF Len(pair) # 2 THEN conf
             ELSE decodeLines_StopAtMalformed(
                      setParts(conf, Split(ToLower(pair[1]), "_"), pair[2]), Tail(lines))

\* EnvVarCodec.Decode, lines 72-95: the loop over the lines
RECURSIVE decodeLines(_, _)
decodeLines(conf, lines) ==
    IF lines = <<>> THEN conf
    ELSE LET pair == SplitN2(Head(lines), "=")
         IN  decodeLines(IF Len(pair) # 2 THEN conf
                         ELSE setParts(conf, Split(ToLower(pair[1]), "_"), pair[2]),
                         Tail(lines))

EnvVarCodecDecode(data) == decodeLines(EmptyMap, Split(data, "\n"))

\* OSEnvVar.Load on the process environment environ
OSEnvVarLoad(environ, prefix) ==
    LET kept == SelectSeq(environ, LAMBDA env : HasPrefix(env, prefix))
        validEnv == [n \in 1..Len(kept) |-> TrimPrefix(kept[n], prefix)]
    IN  EnvVarCodecDecode(Join(validEnv, "\n"))

(***************************************************************************)
(* Conflex.getValueFromMap: an exact top-level key match first, then the   *)
(* walk over the dot-separated segments.  Go's nil is NilV.                *)
(***************************************************************************)
RECURSIVE walkSegments(_, _, _)
walkSegments(current, segments, n) ==
    IF n > Len(segments) THEN NilV
    ELSE IF segments[n] \in DOMAIN current
         THEN IF n = Len(segments) THEN current[segments[n]]
              ELSE IF IsMap(current[segments[n]])
                   THEN walkSegments(current[segments[n]].m, segments, n + 1)
                   ELSE NilV
         ELSE NilV

getValueFromMap_WalkOnly(vals, path) == walkSegments(vals, Split(path, "."), 1)

getValueFromMap(vals, path) ==
    IF path \in DOMAIN vals THEN vals[path]
    ELSE walkSegments(vals, Split(path, "."), 1)

\* Conflex.Get
Get(vals, key) == getValueFromMap(vals, key)


(***************************************************************************)
(* github.com/spf13/cast as the typed getters use it.  Every ToXxxE        *)
(* returns the pair (value, error); err is "nil" or "cast".  On an error   *)
(* the value is the type's zero value.                                     *)
(***************************************************************************)
DigitChars == <<"0", "1", "2", "3", "4", "5", "6", "7", "8", "9">>

IsDigit(c) == \E d \in 1..10 : DigitChars[d] = c

DigitVal(c) == (CHOOSE d \in 1..10 : DigitChars[d] = c) - 1

RECURSIVE parseDigits(_, _)
parseDigits(s, acc) ==
    IF s = <<>> THEN acc
    ELSE parseDigits(Tail(s), acc * 10 + DigitVal(Head(s)))

\* strconv.ParseInt on a decimal numeral with an optional sign
ParseInt(s) ==
    LET body == IF s # <<>> /\ Head(s) \in {"-", "+"} THEN Tail(s) ELSE s
    IN  IF body = <<>> \/ \E n \in 1..Len(body) : ~IsDigit(body[n])
        THEN [v |-> 0, err |-> "cast"]
        ELSE [v |-> IF Head(s) = "-" THEN 0 - parseDigits(body, 0)
                    ELSE parseDigits(body, 0),
              err |-> "nil"]

RECURSIVE formatDigits(_)
formatDigits(n) ==
    IF n < 10 THEN <<DigitChars[n + 1]>>
    ELSE formatDigits(n \div 10) \o <<DigitChars[(n % 10) + 1]>>

\* strconv.FormatInt(n, 10)
FormatInt(n) == IF n < 0 THEN <<"-">> \o formatDigits(0 - n) ELSE formatDigits(n)

\* strconv.ParseBool
ParseBool(s) ==
    IF s \in {<<"1">>, <<"t">>, <<"T">>, <<"t", "r", "u", "e">>,
              <<"T", "R", "U", "E">>, <<"T", "r", "u", "e">>}
    THEN [v |-> TRUE, err |-> "nil"]
    ELSE IF s \in {<<"0">>, <<"f">>, <<"F">>, <<"f", "a", "l", "s", "e">>,
                   <<"F", "A", "L", "S", "E">>, <<"F", "a", "l", "s", "e">>}
    THEN [v |-> FALSE, err |-> "nil"]
    ELSE [v |-> FALSE, err |-> "cast"]

\* cast.ToStringE
ToStringE(val) ==
    IF IsStr(val) THEN [v |-> val.s, err |-> "nil"]
    ELSE IF IsInt(val) THEN [v |-> FormatInt(val.i), err |-> "nil"]
    ELSE IF IsBool(val)
         THEN [v |-> IF val.b THEN <<"t", "r", "u", "e">>
                     ELSE <<"f", "a", "l", "s", "e">>, err |-> "nil"]
    ELSE IF IsNil(val) THEN [v |-> <<>>, err |-> "nil"]
    ELSE [v |-> <<>>, err |-> "cast"]

\* cast.ToIntE
ToIntE(val) ==
    IF IsInt(val) THEN [v |-> val.i, err |-> "nil"]
    ELSE IF IsStr(val) THEN ParseInt(val.s)
    ELSE IF IsBool(val) THEN [v |-> IF val.b THEN 1 ELSE 0, err |-> "nil"]
    ELSE IF IsNil(val) THEN [v |-> 0, err |-> "nil"]
    ELSE [v |-> 0, err |-> "cast"]

\* cast.ToBoolE
ToBoolE(val) ==
    IF IsBool(val) THEN [v |-> val.b, err |-> "nil"]
    ELSE IF IsNil(val) THEN [v |-> FALSE, err |-> "nil"]
    ELSE IF IsInt(val) THEN [v |-> val.i # 0, err |-> "nil"]
    ELSE IF IsStr(val) THEN ParseBool(val.s)
    ELSE [v |-> FALSE, err |-> "cast"]

\* cast.ToIntSliceE: a []any converts element by element with ToIntE
ToIntSliceE(val) ==
    IF IsList(val)
    THEN IF \E n \in 1..Len(val.l) : ToIntE(val.l[n]).err # "nil"
         THEN [v |-> <<>>, err |-> "cast"]
         ELSE [v |-> [n \in 1..Len(val.l) |-> ToIntE(val.l[n]).v], err |-> "nil"]
    ELSE [v |-> <<>>, err |-> "cast"]

\* cast.ToStringMapE: a map[string]any is returned as it is
ToStringMapE(val) ==
    IF IsMap(val) THEN [v |-> val.m, err |-> "nil"]
    ELSE [v |-> EmptyMap, err |-> "cast"]

(***************************************************************************)
(* The error-returning getters: "key not found" when Get returns nil,      *)
(* otherwise whatever the cast returns.                                    *)
(***************************************************************************)
GetStringE(vals, key) ==
    IF IsNil(Get(vals, key)) THEN [v |-> <<>>, err |-> "notfound"]
    ELSE ToStringE(Get(vals, key))

GetIntE_NoNilCheck(vals, key) == ToIntE(Get(vals, key))

GetIntE(vals, key) ==
    IF IsNil(Get(vals, key)) THEN [v |-> 0, err |-> "notfound"]
    ELSE ToIntE(Get(vals, key))

GetBoolE(vals, key) ==
    IF IsNil(Get(vals, key)) THEN [v |-> FALSE, err |-> "notfound"]
    ELSE ToBoolE(Get(vals, key))

GetIntSliceE(vals, key) ==
    IF IsNil(Get(vals, key)) THEN [v |-> <<>>, err |-> "notfound"]
    ELSE ToIntSliceE(Get(vals, key))

GetStringMapE(vals, key) ==
    IF IsNil(Get(vals, key)) THEN [v |-> EmptyMap, err |-> "notfound"]
    ELSE ToStringMapE(Get(vals, key))

(***************************************************************************)
(* The zero-value getters: cast.ToXxx(c.Get(key)) drops the error.         *)
(***************************************************************************)
GetString(vals, key) == ToStringE(Get(vals, key)).v

GetInt_AssertOnly(vals, key) == IF IsInt(Get(vals, key)) THEN Get(vals, key).i ELSE 0

GetInt(vals, key) == ToIntE(Get(vals, key)).v

GetBool(vals, key) == ToBoolE(Get(vals, key)).v

GetIntSlice(vals, key) == ToIntSliceE(Get(vals, key)).v

GetStringMap(vals, key) == ToStringMapE(Get(vals, key)).v


(***************************************************************************)
(* Bounds of the model.                                                    *)
(***************************************************************************)
NumThreads == 2       \* goroutines calling Load concurrently
NumSources == 2       \* sources registered with WithSource
NumValidators == 2    \* functions registered with WithValidator
MaxLoads == 2         \* calls of Load in one behaviour
MaxEnv == 2           \* entries in the process environment
NumDumpers == 2       \* dumpers registered with WithDumper, at most

Threads == 1..NumThreads

Kfoo == <<"f", "o", "o">>
Kbar == <<"b", "a", "r">>

(***************************************************************************)
(* The Binding Target of the tests: bindStruct / validatingBindStruct,     *)
(*    Foo string `conflex:"foo"`;  Bar int `conflex:"bar"`.                *)
(* binding is "nil" (no WithBinding), "ptr" (&bindStruct, no Validate),    *)
(* "validating" (&validatingBindStruct) or "nonptr" (a struct value).      *)
(***************************************************************************)
ZeroTarget == [foo |-> <<>>, bar |-> 0, hidden |-> FALSE]

\* a target the caller filled with defaults before New (TestBinding_DefaultValues)
DefaultTarget == [foo |-> <<"d">>, bar |-> 5, hidden |-> FALSE]

\* hiddenStruct of TestBinding_UnexportedFields: the field tagged "bar" is
\* unexported (hidden |-> TRUE); mapstructure skips a field it cannot set
HiddenTarget == [foo |-> <<>>, bar |-> 0, hidden |-> TRUE]

Targets == {ZeroTarget, DefaultTarget, HiddenTarget}

\* validatingBindStruct.Validate: "foo cannot be empty"
Validate(tgt) == IF tgt.foo = <<>> THEN "err" ELSE "nil"

(***************************************************************************)
(* mapstructure's Decoder.Decode of a map into the target struct, without  *)
(* weakly typed input: a field whose key is absent keeps its value, a      *)
(* field whose key holds a value of the field's type is set, any other     *)
(* non-nil value is a decode error for that field (a nil value leaves the  *)
(* field alone); the fields that decode are                                *)
(* written also when another field fails.                                  *)
(***************************************************************************)
Decode_ZeroFields(tgt, vals) ==
    [tgt |-> [foo |-> IF Kfoo \in DOMAIN vals /\ IsStr(vals[Kfoo])
                      THEN vals[Kfoo].s ELSE <<>>,
              bar |-> IF Kbar \in DOMAIN vals /\ IsInt(vals[Kbar]) /\ ~tgt.hidden
                      THEN vals[Kbar].i ELSE 0,
              hidden |-> tgt.hidden],
     err |-> IF /\ Kfoo \in DOMAIN vals => IsStr(vals[Kfoo]) \/ IsNil(vals[Kfoo])
                /\ Kbar \in DOMAIN vals =>
                      tgt.hidden \/ IsInt(vals[Kbar]) \/ IsNil(vals[Kbar])
             THEN "nil" ELSE "err"]

Decode(tgt, vals) ==
    LET fooOk == Kfoo \in DOMAIN vals => IsStr(vals[Kfoo]) \/ IsNil(vals[Kfoo])
        barOk == Kbar \in DOMAIN vals =>
                    \/ tgt.hidden
                    \/ IsInt(vals[Kbar]) \/ IsNil(vals[Kbar])
    IN  [tgt |-> [foo |-> IF Kfoo \in DOMAIN vals /\ IsStr(vals[Kfoo])
                          THEN vals[Kfoo].s ELSE tgt.foo,
                  bar |-> IF Kbar \in DOMAIN vals /\ IsInt(vals[Kbar]) /\ ~tgt.hidden
                          THEN vals[Kbar].i ELSE tgt.bar,
                  hidden |-> tgt.hidden],
         err |-> IF fooOk /\ barOk THEN "nil" ELSE "err"]

VARIABLES
    values,      \* the map c.values points to
    binding,     \* c.binding: "nil", "ptr", "validating" or "nonptr"
    schema,      \* c.jsonSchemaCompiled != nil
    target,      \* the fields of the caller's Binding Target
    pc,          \* where each goroutine is inside Load ("idle": not in Load)
    newValues,   \* Load's local newValues
    oldValues,   \* Load's local oldValues
    idx,         \* Load's loop index over c.sources / c.customValidators
    ret,         \* what the goroutine's last Load returned: "none", "nil", "err"
    lastErr,     \* the error value that Load returned: its Unwrap chain
    got,         \* what the reader's last accessor call obtained
    loaded,      \* history: the results the sources returned to this Load
    trace,       \* history: the stages this Load has run, in order
    committed,   \* history: the maps stored by the commit at the end of a Load
    before,      \* history: c.values when this Load was called
    dirty,       \* history: another Load committed since this Load was called
    targetWas,   \* history: the Binding Target when Load was last called
    environ,     \* os.Environ(): the entries "NAME=value" of the process
    ndumpers,    \* len(c.dumpers)
    dumpAt,      \* Dump's loop index over c.dumpers (0: not in Dump)
    dumpRet,     \* what the last Dump returned: "none", "nil", "err"
    sink,        \* mockDumper.values of each dumper: what it was last handed
    dumped,      \* history: the dumpers this Dump has invoked, in order
    runs,        \* history: the source results and the Aggregate of every
                 \* Load that committed, in commit order
    heap,        \* the map objects of the Go heap: object id -> key -> value,
                 \* where a nested map is a reference to another object
    root,        \* the object c.values points to
    work,        \* the object newValues of the Load in progress (0: none)
    at,          \* that Load's position in the source loop
    held,        \* history: the object a reader got from Values() and what
                 \* it held then
    calls        \* history: how many times Load has been called

vars == <<values, binding, schema, target, pc, newValues, oldValues, idx, ret,
          lastErr, got, loaded, trace, committed, before, dirty,
          targetWas, environ, ndumpers, dumpAt, dumpRet, sink, dumped, runs,
          heap, root, work, at, held, calls>>

\* the state of Dump
dumping == <<ndumpers, dumpAt, dumpRet, sink, dumped>>

\* the state of the heap of map objects
aliasing == <<heap, root, work, at, held>>

config == <<binding, schema, environ, dumping, aliasing>>

\* what no step but the call of Load changes
fixed == <<binding, schema, environ, dumping, aliasing, calls, targetWas, runs>>

(***************************************************************************)
(* Go error values, as the chain errors.Unwrap walks, outermost first.     *)
(* errors.New gives a chain of one; fmt.Errorf with %w puts a wrapper in   *)
(* front of its cause; fmt.Errorf with %v makes a new error of one.        *)
(***************************************************************************)
NoError == <<>>

ErrorsNew(msg) == <<[type |-> "errorString", msg |-> msg]>>

Errorf(msg, cause) == <<[type |-> "wrapError", msg |-> msg]>> \o cause

\* the error a failing mock source returns (conflex_test.go: errors.New)
SourceFailure == ErrorsNew("source failure")

\* the error the compiled JSON schema returns for an invalid document
SchemaFailure == <<[type |-> "ValidationError", msg |-> "jsonschema"]>>

\* the error a custom validator returns
ValidatorFailure == ErrorsNew("validator failure")

\* mapstructure.NewDecoder for a Result that is no pointer
NotAPointer == ErrorsNew("result must be a pointer")

\* Decoder.Decode for a value of the wrong type
DecodeFailure == <<[type |-> "Error", msg |-> "mapstructure"]>>

\* validatingBindStruct.Validate
TargetInvalid == ErrorsNew("foo cannot be empty")

\* no dumper has been handed anything, Dump has not been called
NoDump ==
    /\ dumpAt = 0
    /\ dumpRet = "none"
    /\ sink = [n \in 1..NumDumpers |-> NilV]
    /\ dumped = <<>>

\* the heap is not looked at
NoHeap ==
    /\ heap = <<>>
    /\ root = 0
    /\ work = 0
    /\ at = 0
    /\ held = [id |-> 0]

NoCall == [op |-> "none", key |-> <<>>, agg |-> EmptyMap, res |-> NilV, err |-> "nil"]

\* New(options...): the state after construction
Init ==
    /\ values = EmptyMap
    /\ binding \in {"nil", "ptr", "validating", "nonptr"}
    /\ schema \in BOOLEAN
    /\ target \in Targets
    /\ targetWas = target
    /\ environ = <<>>
    /\ pc = [t \in Threads |-> "idle"]
    /\ newValues = [t \in Threads |-> EmptyMap]
    /\ oldValues = [t \in Threads |-> EmptyMap]
    /\ idx = [t \in Threads |-> 0]
    /\ ret = [t \in Threads |-> "none"]
    /\ lastErr = [t \in Threads |-> NoError]
    /\ got = NoCall
    /\ loaded = [t \in Threads |-> <<>>]
    /\ trace = [t \in Threads |-> <<>>]
    /\ committed = {}
    /\ runs = <<>>
    /\ before = [t \in Threads |-> EmptyMap]
    /\ dirty = [t \in Threads |-> FALSE]
    /\ calls = 0
    /\ ndumpers = 0
    /\ NoDump
    /\ NoHeap

Stage(name, n) == [st |-> name, n |-> n]

\* Load returns e: its locals are gone
ReturnFrom(t, e) ==
    /\ pc' = [pc EXCEPT ![t] = "idle"]
    /\ ret' = [ret EXCEPT ![t] = e]
    /\ newValues' = [newValues EXCEPT ![t] = EmptyMap]
    /\ oldValues' = [oldValues EXCEPT ![t] = EmptyMap]
    /\ idx' = [idx EXCEPT ![t] = 0]
    /\ before' = [before EXCEPT ![t] = EmptyMap]

\* where Load goes once the custom validators are through (conflex.go:251)
AfterValidators == IF binding = "nil" THEN "commit" ELSE "swap"

\* where Load goes once the schema stage is through (conflex.go:236)
AfterSchema == IF NumValidators = 0 THEN AfterValidators ELSE "validators"

\* where Load goes once the sources are through (conflex.go:228)
AfterSources == IF schema THEN "schema" ELSE AfterSchema

\* Load merging into the values it already holds, instead of a fresh map
LoadBegin_KeepOld(t) ==
    /\ pc[t] = "idle"
    /\ calls < MaxLoads
    /\ calls' = calls + 1
    /\ targetWas' = target
    /\ newValues' = [newValues EXCEPT ![t] = values]
    /\ idx' = [idx EXCEPT ![t] = 1]
    /\ pc' = [pc EXCEPT ![t] = IF NumSources = 0 THEN AfterSources ELSE "sources"]
    /\ ret' = [ret EXCEPT ![t] = "none"]
    /\ lastErr' = [lastErr EXCEPT ![t] = NoError]
    /\ loaded' = [loaded EXCEPT ![t] = <<>>]
    /\ trace' = [trace EXCEPT ![t] = <<>>]
    /\ before' = [before EXCEPT ![t] = values]
    /\ dirty' = [dirty EXCEPT ![t] = FALSE]
    /\ UNCHANGED <<values, config, target, oldValues, got, committed, runs>>

\* a controller that refuses Load once a Load has failed
LoadBegin_StuckAfterError(t) ==
    /\ pc[t] = "idle"
    /\ ret[t] # "err"
    /\ calls < MaxLoads
    /\ calls' = calls + 1
    /\ targetWas' = target
    /\ newValues' = [newValues EXCEPT ![t] = EmptyMap]
    /\ idx' = [idx EXCEPT ![t] = 1]
    /\ pc' = [pc EXCEPT ![t] = IF NumSources = 0 THEN AfterSources ELSE "sources"]
    /\ ret' = [ret EXCEPT ![t] = "none"]
    /\ lastErr' = [lastErr EXCEPT ![t] = NoError]
    /\ loaded' = [loaded EXCEPT ![t] = <<>>]
    /\ trace' = [trace EXCEPT ![t] = <<>>]
    /\ before' = [before EXCEPT ![t] = values]
    /\ dirty' = [dirty EXCEPT ![t] = FALSE]
    /\ UNCHANGED <<values, config, target, oldValues, got, committed, runs>>

\* Load is called: newValues := make(map[string]any)
LoadBegin(t) ==
    /\ pc[t] = "idle"
    /\ calls < MaxLoads
    /\ calls' = calls + 1
    /\ targetWas' = target
    /\ newValues' = [newValues EXCEPT ![t] = EmptyMap]
    /\ idx' = [idx EXCEPT ![t] = 1]
    /\ pc' = [pc EXCEPT ![t] = IF NumSources = 0 THEN AfterSources ELSE "sources"]
    /\ ret' = [ret EXCEPT ![t] = "none"]
    /\ lastErr' = [lastErr EXCEPT ![t] = NoError]
    /\ loaded' = [loaded EXCEPT ![t] = <<>>]
    /\ trace' = [trace EXCEPT ![t] = <<>>]
    /\ before' = [before EXCEPT ![t] = values]
    /\ dirty' = [dirty EXCEPT ![t] = FALSE]
    /\ UNCHANGED <<values, config, target, oldValues, got, committed, runs>>

\* one turn of the source loop: l.Load returns conf, which is merged
LoadSource(t, conf) ==
    /\ pc[t] = "sources"
    /\ newValues' = [newValues EXCEPT ![t] = Merge(newValues[t], conf)]
    /\ loaded' = [loaded EXCEPT ![t] = Append(loaded[t], conf)]
    /\ trace' = [trace EXCEPT ![t] = Append(trace[t], Stage("source", idx[t]))]
    /\ idx' = [idx EXCEPT ![t] = IF idx[t] = NumSources THEN 1 ELSE idx[t] + 1]
    /\ pc' = [pc EXCEPT ![t] = IF idx[t] = NumSources THEN AfterSources ELSE "sources"]
    /\ UNCHANGED <<values, fixed, target, oldValues, ret, lastErr, got, committed, before, dirty>>

\* a source loop that goes on to the next source after an error
LoadSourceErr_Continue(t) ==
    /\ pc[t] = "sources"
    /\ trace' = [trace EXCEPT ![t] = Append(trace[t], Stage("sourceErr", idx[t]))]
    /\ idx' = [idx EXCEPT ![t] = IF idx[t] = NumSources THEN 1 ELSE idx[t] + 1]
    /\ pc' = [pc EXCEPT ![t] = IF idx[t] = NumSources THEN AfterSources ELSE "sources"]
    /\ UNCHANGED <<values, fixed, target, newValues, oldValues, ret, lastErr, got, loaded,
                   committed, before, dirty>>

\* one turn of the source loop: l.Load returns an error, Load returns it
LoadSourceErr(t) ==
    /\ pc[t] = "sources"
    /\ trace' = [trace EXCEPT ![t] = Append(trace[t], Stage("sourceErr", idx[t]))]
    /\ lastErr' = [lastErr EXCEPT ![t] = SourceFailure]
    /\ ReturnFrom(t, "err")
    /\ UNCHANGED <<values, fixed, target, got, loaded, committed, dirty>>

\* c.jsonSchemaCompiled.Validate(newValues); ok is the validator's verdict
SchemaValidate(t, ok) ==
    /\ pc[t] = "schema"
    /\ IF ok
       THEN /\ trace' = [trace EXCEPT ![t] = Append(trace[t], Stage("schema", 0))]
            /\ pc' = [pc EXCEPT ![t] = AfterSchema]
            /\ UNCHANGED <<ret, lastErr, newValues, oldValues, idx, before>>
       ELSE /\ trace' = [trace EXCEPT ![t] = Append(trace[t], Stage("schemaErr", 0))]
            /\ lastErr' = [lastErr EXCEPT ![t] =
                              Errorf("JSON Schema validation failed", SchemaFailure)]
            /\ ReturnFrom(t, "err")
    /\ UNCHANGED <<values, fixed, target, got, loaded, committed, dirty>>

CustomValidator_NoRecover(t, outcome) ==
    /\ pc[t] = "validators"
    /\ IF outcome = "ok"
       THEN /\ trace' = [trace EXCEPT ![t] = Append(trace[t], Stage("validator", idx[t]))]
            /\ idx' = [idx EXCEPT ![t] = IF idx[t] = NumValidators THEN 1 ELSE idx[t] + 1]
            /\ pc' = [pc EXCEPT ![t] = IF idx[t] = NumValidators
                                       THEN AfterValidators ELSE "validators"]
            /\ UNCHANGED <<ret, lastErr, newValues, oldValues, before>>
       ELSE /\ trace' = [trace EXCEPT ![t] = Append(trace[t], Stage("validatorErr", idx[t]))]
            /\ lastErr' = [lastErr EXCEPT ![t] =
                              IF outcome = "panic" THEN NoError ELSE ValidatorFailure]
            /\ ReturnFrom(t, IF outcome = "panic" THEN "panic" ELSE "err")
    /\ UNCHANGED <<values, fixed, target, got, loaded, committed, dirty>>

CustomValidator_NoShortCircuit(t, outcome) ==
    /\ pc[t] = "validators"
    /\ trace' = [trace EXCEPT ![t] = Append(trace[t],
                    Stage(IF outcome = "ok" THEN "validator" ELSE "validatorErr", idx[t]))]
    /\ idx' = [idx EXCEPT ![t] = IF idx[t] = NumValidators THEN 1 ELSE idx[t] + 1]
    /\ pc' = [pc EXCEPT ![t] = IF idx[t] = NumValidators
                               THEN AfterValidators ELSE "validators"]
    /\ UNCHANGED <<ret, lastErr, newValues, oldValues, before>>
    /\ UNCHANGED <<values, fixed, target, got, loaded, committed, dirty>>

\* one turn of the validator loop; outcome is "ok", "err" or "panic"
\* (a panic is recovered and becomes validatorErr)
CustomValidator(t, outcome) ==
    /\ pc[t] = "validators"
    /\ IF outcome = "ok"
       THEN /\ trace' = [trace EXCEPT ![t] = Append(trace[t], Stage("validator", idx[t]))]
            /\ idx' = [idx EXCEPT ![t] = IF idx[t] = NumValidators THEN 1 ELSE idx[t] + 1]
            /\ pc' = [pc EXCEPT ![t] = IF idx[t] = NumValidators
                                       THEN AfterValidators ELSE "validators"]
            /\ UNCHANGED <<ret, lastErr, newValues, oldValues, before>>
       ELSE /\ trace' = [trace EXCEPT ![t] = Append(trace[t], Stage("validatorErr", idx[t]))]
            /\ lastErr' = [lastErr EXCEPT ![t] =
                              IF outcome = "panic" THEN ErrorsNew("validator panic")
                              ELSE ValidatorFailure]
            /\ ReturnFrom(t, "err")
    /\ UNCHANGED <<values, fixed, target, got, loaded, committed, dirty>>

\* oldValues := c.values; c.values = &newValues  (no lock held)
BindSwap(t) ==
    /\ pc[t] = "swap"
    /\ oldValues' = [oldValues EXCEPT ![t] = values]
    /\ values' = newValues[t]
    /\ pc' = [pc EXCEPT ![t] = "bind"]
    /\ UNCHANGED <<fixed, target, newValues, idx, ret, lastErr, got, loaded, trace,
                   committed, before, dirty>>

\* c.bind(): NewDecoder fails for a non-pointer, else Decode(c.values)
bind(t) ==
    /\ pc[t] = "bind"
    /\ LET d == IF binding = "nonptr" THEN [tgt |-> target, err |-> "err"]
                ELSE Decode(target, values)
       IN  /\ target' = d.tgt
           /\ trace' = [trace EXCEPT ![t] =
                  Append(trace[t], Stage(IF d.err = "nil" THEN "bind" ELSE "bindErr", 0))]
           /\ pc' = [pc EXCEPT ![t] =
                  IF d.err # "nil" THEN "restoreErr"
                  ELSE IF binding = "validating" THEN "validate" ELSE "restore"]
    /\ UNCHANGED <<values, fixed, newValues, oldValues, idx, ret, lastErr, got, loaded,
                   committed, before, dirty>>

\* v.Validate() on the Binding Target
TargetValidate(t) ==
    /\ pc[t] = "validate"
    /\ trace' = [trace EXCEPT ![t] = Append(trace[t],
                    Stage(IF Validate(target) = "nil" THEN "validate" ELSE "validateErr", 0))]
    /\ pc' = [pc EXCEPT ![t] = IF Validate(target) = "nil" THEN "restore" ELSE "restoreErr"]
    /\ UNCHANGED <<values, fixed, target, newValues, oldValues, idx, ret, lastErr, got,
                   loaded, committed, before, dirty>>

\* c.values = oldValues; return err  (bind or Validate failed)
RestoreErr(t) ==
    /\ pc[t] = "restoreErr"
    /\ values' = oldValues[t]
    /\ lastErr' = [lastErr EXCEPT ![t] =
          IF trace[t][Len(trace[t])].st = "validateErr" THEN TargetInvalid
          ELSE IF binding = "nonptr" THEN Errorf("failed to create decoder", NotAPointer)
          ELSE Errorf("failed to decode configuration", DecodeFailure)]
    /\ ReturnFrom(t, "err")
    /\ UNCHANGED <<fixed, target, got, loaded, trace, committed, dirty>>

\* c.values = oldValues  (bind and Validate succeeded)
Restore(t) ==
    /\ pc[t] = "restore"
    /\ values' = oldValues[t]
    /\ pc' = [pc EXCEPT ![t] = "commit"]
    /\ UNCHANGED <<fixed, target, newValues, oldValues, idx, ret, lastErr, got, loaded,
                   trace, committed, before, dirty>>

\* c.mu.Lock(); c.values = &newValues; c.mu.Unlock(); return nil
Commit(t) ==
    /\ pc[t] = "commit"
    /\ values' = newValues[t]
    /\ trace' = [trace EXCEPT ![t] = Append(trace[t], Stage("commit", 0))]
    /\ committed' = committed \cup {newValues[t]}
    /\ runs' = Append(runs, [srcs |-> loaded[t], agg |-> newValues[t]])
    /\ dirty' = [u \in Threads |-> u # t /\ pc[u] # "idle"]
    /\ lastErr' = [lastErr EXCEPT ![t] = NoError]
    /\ ReturnFrom(t, "nil")
    /\ UNCHANGED <<config, calls, targetWas, target, got, loaded>>

\* Values(): the pointer read under the read lock
Values == values

\* what an accessor call leaves with its caller: the map Values() handed
\* it, and the call's result (a tagged value) and error
Called(op, key, res, err) ==
    /\ got' = [op |-> op, key |-> key, agg |-> Values, res |-> res, err |-> err]
    /\ UNCHANGED <<values, fixed, target, pc, newValues, oldValues, idx, ret, lastErr,
                   loaded, trace, committed, before, dirty>>

\* a reader goroutine calls Values()
ReadValues == Called("Values", <<>>, NilV, "nil")

\* a reader goroutine calls Get(key)
ReadGet(key) == Called("Get", key, Get(Values, key), "nil")

\* a reader goroutine calls one of the error-returning getters
ReadGetStringE(key) ==
    Called("GetStringE", key, StrV(GetStringE(Values, key).v), GetStringE(Values, key).err)

ReadGetIntE(key) ==
    Called("GetIntE", key, IntV(GetIntE(Values, key).v), GetIntE(Values, key).err)

ReadGetBoolE(key) ==
    Called("GetBoolE", key, BoolV(GetBoolE(Values, key).v), GetBoolE(Values, key).err)

ReadGetIntSliceE(key) ==
    Called("GetIntSliceE", key, ListV(GetIntSliceE(Values, key).v),
           GetIntSliceE(Values, key).err)

ReadGetStringMapE(key) ==
    Called("GetStringMapE", key, MapV(GetStringMapE(Values, key).v),
           GetStringMapE(Values, key).err)

\* a reader goroutine calls one of the zero-value getters
ReadGetString(key) == Called("GetString", key, StrV(GetString(Values, key)), "nil")

ReadGetInt(key) == Called("GetInt", key, IntV(GetInt(Values, key)), "nil")

ReadGetBool(key) == Called("GetBool", key, BoolV(GetBool(Values, key)), "nil")

ReadGetIntSlice(key) == Called("GetIntSlice", key, ListV(GetIntSlice(Values, key)), "nil")

ReadGetStringMap(key) == Called("GetStringMap", key, MapV(GetStringMap(Values, key)), "nil")

(***************************************************************************)
(* Dump: for each dumper in c.dumpers, d.Dump(ctx, c.Values()); the first  *)
(* error is returned.  Each turn of the loop calls Values() anew.          *)
(***************************************************************************)
\* what only Dump's steps leave alone
loading == <<values, binding, schema, target, pc, newValues, oldValues, idx, ret,
             lastErr, got, loaded, trace, committed, before, dirty, targetWas,
             environ, runs, aliasing, calls>>

\* Dump is called
DumpBegin ==
    /\ dumpAt = 0
    /\ dumpAt' = 1
    /\ dumpRet' = "none"
    /\ dumped' = <<>>
    /\ UNCHANGED <<loading, ndumpers, sink>>

\* one turn of the loop: the dumper is handed Values() and returns nil
\* (ok) or an error, which Dump returns
DumpInvoke(ok) ==
    /\ dumpAt \in 1..ndumpers
    /\ dumped' = Append(dumped, [n |-> dumpAt, agg |-> Values, ok |-> ok])
    /\ sink' = [sink EXCEPT ![dumpAt] = MapV(Values)]
    /\ dumpAt' = IF ok THEN dumpAt + 1 ELSE 0
    /\ dumpRet' = IF ok THEN dumpRet ELSE "err"
    /\ UNCHANGED <<loading, ndumpers>>

\* the loop is through: return nil
DumpReturn ==
    /\ dumpAt = ndumpers + 1
    /\ dumpAt' = 0
    /\ dumpRet' = "nil"
    /\ UNCHANGED <<loading, ndumpers, sink, dumped>>

(***************************************************************************)
(* The concurrent specification: NumThreads goroutines call Load while a   *)
(* reader calls Values and Get.                                            *)
(***************************************************************************)
PoolGood == (Kfoo :> StrV(<<"x">>)) @@ (Kbar :> IntV(1))
PoolNoFoo == (Kfoo :> StrV(<<>>))
PoolBadBar == (Kbar :> StrV(<<"x">>))

\* what a source may hand back (a nil map has no keys, like EmptyMap)
Results == {PoolGood, PoolNoFoo}

Keys == {Kfoo, Kbar}

Next ==
    \E t \in Threads :
        \/ LoadBegin(t)
        \/ \E conf \in Results : LoadSource(t, conf)
        \/ LoadSourceErr(t)
        \/ \E ok \in BOOLEAN : SchemaValidate(t, ok)
        \/ \E outcome \in {"ok", "err", "panic"} : CustomValidator(t, outcome)
        \/ BindSwap(t)
        \/ bind(t)
        \/ TargetValidate(t)
        \/ RestoreErr(t)
        \/ Restore(t)
        \/ Commit(t)
        \/ ReadValues

Spec == Init /\ [][Next]_vars


(***************************************************************************)
(* The sequential specification: one goroutine calls Load, over source     *)
(* results with nested maps, mixed-case keys, a dotted key, slices and nil.*)
(***************************************************************************)
Ka == <<"a">>
Kb == <<"b">>
KA == <<"A">>
KB == <<"B">>
Kab == <<"a", ".", "b">>

D1 == (Ka :> MapV((Kb :> StrV(<<"4", "2">>))))
D2 == (Ka :> MapV((Kb :> IntV(7)) @@ (Ka :> BoolV(TRUE))))
D3 == (KA :> MapV((Kb :> StrV(<<"x">>)))) @@ (Kb :> ListV(<<IntV(1), StrV(<<"2">>)>>))
      @@ (Kab :> IntV(3))
D4 == (Ka :> StrV(<<"t", "r", "u", "e">>)) @@ (Kb :> NilV)
D5 == (Ka :> MapV((KB :> IntV(0)))) @@ (Kb :> ListV(<<StrV(<<"x">>)>>))
D6 == (Kfoo :> StrV(<<"x">>)) @@ (Kbar :> StrV(<<"1">>))

SeqResults == {EmptyMap, D1, D2, D3, D4, D5, D6, PoolGood, PoolNoFoo}

NextSeq ==
    \/ LoadBegin(1)
    \/ \E conf \in SeqResults : LoadSource(1, conf)
    \/ LoadSourceErr(1)
    \/ \E ok \in BOOLEAN : SchemaValidate(1, ok)
    \/ \E outcome \in {"ok", "err", "panic"} : CustomValidator(1, outcome)
    \/ BindSwap(1)
    \/ bind(1)
    \/ TargetValidate(1)
    \/ RestoreErr(1)
    \/ Restore(1)
    \/ Commit(1)

SpecSeq == Init /\ [][NextSeq]_vars

(***************************************************************************)
(* The environment specification: one goroutine calls Load on an instance  *)
(* whose last source is WithOSEnvVarSource(EnvPrefix); the sources before  *)
(* it are mock sources.  The process environment is any list of up to      *)
(* MaxEnv entries with different names.                                    *)
(***************************************************************************)
EnvPrefix == <<"P", "_">>

EnvEntries ==
    { <<"P", "_", "A", "_", "B", "=", "v">>,
      <<"P", "_", "A", "_", "_", "B", "=", "w">>,
      <<"P", "_", "B", "A", "R", "=", "1">>,
      <<"P", "_", "F", "o", "o", "=", "x">>,
      <<"Q", "_", "A", "=", "z">>,
      <<"p", "_", "a", "_", "b", "=", "y">>,
      <<"P", "_", "X">>,
      <<"P", "_", "A", "=", "s">> }

Environments ==
    UNION {{e \in [1..n -> EnvEntries] : \A i \in 1..n, j \in 1..n : e[i] = e[j] => i = j}
           : n \in 0..MaxEnv}

EnvMockResults == {EmptyMap, PoolGood}

InitEnv ==
    /\ values = EmptyMap
    /\ binding \in {"nil", "ptr"}
    /\ schema = FALSE
    /\ target = ZeroTarget
    /\ targetWas = target
    /\ environ \in Environments
    /\ pc = [t \in Threads |-> "idle"]
    /\ newValues = [t \in Threads |-> EmptyMap]
    /\ oldValues = [t \in Threads |-> EmptyMap]
    /\ idx = [t \in Threads |-> 0]
    /\ ret = [t \in Threads |-> "none"]
    /\ lastErr = [t \in Threads |-> NoError]
    /\ got = NoCall
    /\ loaded = [t \in Threads |-> <<>>]
    /\ trace = [t \in Threads |-> <<>>]
    /\ committed = {}
    /\ runs = <<>>
    /\ before = [t \in Threads |-> EmptyMap]
    /\ dirty = [t \in Threads |-> FALSE]
    /\ calls = 0
    /\ ndumpers = 0
    /\ NoDump
    /\ NoHeap

NextEnv ==
    \/ LoadBegin(1)
    \/ \E conf \in EnvMockResults : idx[1] < NumSources /\ LoadSource(1, conf)
    \/ idx[1] = NumSources /\ LoadSource(1, OSEnvVarLoad(environ, EnvPrefix))
    \/ idx[1] < NumSources /\ LoadSourceErr(1)
    \/ \E outcome \in {"ok", "err", "panic"} : CustomValidator(1, outcome)
    \/ BindSwap(1)
    \/ bind(1)
    \/ RestoreErr(1)
    \/ Restore(1)
    \/ Commit(1)

SpecEnv == InitEnv /\ [][NextEnv]_vars

(***************************************************************************)
(* The dump specification: one goroutine calls Load while another calls    *)
(* Dump on an instance with up to NumDumpers mock dumpers.                 *)
(***************************************************************************)
InitDump ==
    /\ values = EmptyMap
    /\ binding \in {"nil", "ptr", "validating"}
    /\ schema = FALSE
    /\ target = ZeroTarget
    /\ targetWas = target
    /\ environ = <<>>
    /\ ndumpers \in 0..NumDumpers
    /\ NoDump
    /\ NoHeap
    /\ pc = [t \in Threads |-> "idle"]
    /\ newValues = [t \in Threads |-> EmptyMap]
    /\ oldValues = [t \in Threads |-> EmptyMap]
    /\ idx = [t \in Threads |-> 0]
    /\ ret = [t \in Threads |-> "none"]
    /\ lastErr = [t \in Threads |-> NoError]
    /\ got = NoCall
    /\ loaded = [t \in Threads |-> <<>>]
    /\ trace = [t \in Threads |-> <<>>]
    /\ committed = {}
    /\ runs = <<>>
    /\ before = [t \in Threads |-> EmptyMap]
    /\ dirty = [t \in Threads |-> FALSE]
    /\ calls = 0

NextDump ==
    \/ LoadBegin(1)
    \/ \E conf \in Results : LoadSource(1, conf)
    \/ LoadSourceErr(1)
    \/ \E outcome \in {"ok", "err", "panic"} : CustomValidator(1, outcome)
    \/ BindSwap(1)
    \/ bind(1)
    \/ TargetValidate(1)
    \/ RestoreErr(1)
    \/ Restore(1)
    \/ Commit(1)
    \/ DumpBegin
    \/ \E ok \in BOOLEAN : DumpInvoke(ok)
    \/ DumpReturn

SpecDump == InitDump /\ [][NextDump]_vars

(***************************************************************************)
(* The environment specification over raw values: the same instance, in a  *)
(* process whose environment has values with blanks, "=" and a newline.    *)
(***************************************************************************)
RawEntries ==
    { <<"P", "_", "K", "=", " ", "v", " ">>,
      <<"P", "_", "B", "A", "R", "=", "1">>,
      <<"P", "_", "E", "=", "a", "=", "b">>,
      <<"P", "_", "N", "=", "1", "\n", "B", "=", "z">>,
      <<"P", "_", "A", "_", "B", "=", "v">>,
      <<"P", "_", "B", "=", "y">> }

RawEnvironments ==
    UNION {{e \in [1..n -> RawEntries] : \A i \in 1..n, j \in 1..n : e[i] = e[j] => i = j}
           : n \in 0..MaxEnv}

InitEnvRaw ==
    /\ values = EmptyMap
    /\ binding \in {"nil", "ptr"}
    /\ schema = FALSE
    /\ target = ZeroTarget
    /\ targetWas = target
    /\ environ \in RawEnvironments
    /\ ndumpers = 0
    /\ NoDump
    /\ NoHeap
    /\ pc = [t \in Threads |-> "idle"]
    /\ newValues = [t \in Threads |-> EmptyMap]
    /\ oldValues = [t \in Threads |-> EmptyMap]
    /\ idx = [t \in Threads |-> 0]
    /\ ret = [t \in Threads |-> "none"]
    /\ lastErr = [t \in Threads |-> NoError]
    /\ got = NoCall
    /\ loaded = [t \in Threads |-> <<>>]
    /\ trace = [t \in Threads |-> <<>>]
    /\ committed = {}
    /\ runs = <<>>
    /\ before = [t \in Threads |-> EmptyMap]
    /\ dirty = [t \in Threads |-> FALSE]
    /\ calls = 0

SpecEnvRaw == InitEnvRaw /\ [][NextEnv]_vars

(***************************************************************************)
(* Load on the heap.  A Go map is an object: mergo.Merge stores the        *)
(* source's nested map itself under a key the destination lacks, and       *)
(* merges into the destination's nested map in place where both hold a     *)
(* map.  The mock source hands back its conf object on every call.         *)
(***************************************************************************)
Ref(id) == [ref |-> id]
IsRef(v) == "ref" \in DOMAIN v

\* the value of object id, nested maps followed
RECURSIVE Deref(_, _)
Deref(h, id) ==
    [k \in DOMAIN h[id] |->
        IF IsRef(h[id][k]) THEN MapV(Deref(h, h[id][k].ref)) ELSE h[id][k]]

\* mergo's deepMerge of the keys ks of object src into object dst
RECURSIVE mergeKeys(_, _, _, _)
mergeKeys(h, dst, src, ks) ==
    IF ks = {} THEN h
    ELSE LET k == CHOOSE j \in ks : TRUE
             v == h[src][k]
             h1 == IF IsRef(v) /\ k \in DOMAIN h[dst] /\ IsRef(h[dst][k])
                   THEN mergeKeys(h, h[dst][k].ref, v.ref, DOMAIN h[v.ref])
                   ELSE [h EXCEPT ![dst] = (k :> v) @@ h[dst]]
         IN  mergeKeys(h1, dst, src, ks \ {k})

\* mergo.Merge(&dst, src, mergo.WithOverride) on objects
MergeInto(h, dst, src) == mergeKeys(h, dst, src, DOMAIN h[src])

\* the objects that exist once New has returned: four conf maps of mock
\* sources with their nested maps, and the empty map c.values points to
Heap0 ==
    << (Ka :> Ref(2)),             (Kb :> StrV(<<"1">>)),
       (Ka :> Ref(4)),             (Ka :> StrV(<<"2">>)),
       (Ka :> Ref(6)),             (Kb :> StrV(<<"9">>)),
       (Ka :> StrV(<<"s">>)),      EmptyMap >>

\* the conf objects a mock source may hold
Confs == {1, 3, 5, 7}

\* the object New stores in c.values
Root0 == 8

\* what the steps on the heap leave alone
unaliased == <<binding, schema, target, pc, newValues, oldValues, idx, ret, lastErr,
               got, loaded, trace, committed, before, dirty, targetWas, environ,
               runs, dumping>>

\* Load is called: newValues := make(map[string]any)
HeapLoadBegin ==
    /\ work = 0
    /\ calls < MaxLoads
    /\ calls' = calls + 1
    /\ heap' = Append(heap, EmptyMap)
    /\ work' = Len(heap) + 1
    /\ at' = 1
    /\ UNCHANGED <<values, unaliased, root, held>>

\* one turn of the source loop: the source returns its object conf, which
\* is merged into newValues
HeapLoadSource(conf) ==
    /\ work # 0
    /\ at \in 1..NumSources
    /\ heap' = MergeInto(heap, work, conf)
    /\ at' = at + 1
    /\ values' = Deref(heap', root)
    /\ UNCHANGED <<unaliased, calls, root, work, held>>

\* Load returns an error (a source or a validator failed): newValues is
\* dropped
HeapLoadErr ==
    /\ work # 0
    /\ work' = 0
    /\ at' = 0
    /\ UNCHANGED <<values, unaliased, calls, heap, root, held>>

\* c.values = &newValues under the lock; return nil
HeapCommit ==
    /\ work # 0
    /\ at = NumSources + 1
    /\ root' = work
    /\ work' = 0
    /\ at' = 0
    /\ values' = Deref(heap, work)
    /\ UNCHANGED <<unaliased, calls, heap, held>>

\* a reader calls Values() and keeps the map it got
HeapValues ==
    /\ held' = [id |-> root, val |-> Deref(heap, root)]
    /\ UNCHANGED <<values, unaliased, calls, heap, root, work, at>>

InitAlias ==
    /\ values = EmptyMap
    /\ binding = "nil"
    /\ schema = FALSE
    /\ target = ZeroTarget
    /\ targetWas = target
    /\ environ = <<>>
    /\ ndumpers = 0
    /\ NoDump
    /\ heap = Heap0
    /\ root = Root0
    /\ work = 0
    /\ at = 0
    /\ held = [id |-> 0]
    /\ pc = [t \in Threads |-> "idle"]
    /\ newValues = [t \in Threads |-> EmptyMap]
    /\ oldValues = [t \in Threads |-> EmptyMap]
    /\ idx = [t \in Threads |-> 0]
    /\ ret = [t \in Threads |-> "none"]
    /\ lastErr = [t \in Threads |-> NoError]
    /\ got = NoCall
    /\ loaded = [t \in Threads |-> <<>>]
    /\ trace = [t \in Threads |-> <<>>]
    /\ committed = {}
    /\ runs = <<>>
    /\ before = [t \in Threads |-> EmptyMap]
    /\ dirty = [t \in Threads |-> FALSE]
    /\ calls = 0

NextAlias ==
    \/ HeapLoadBegin
    \/ \E conf \in Confs : HeapLoadSource(conf)
    \/ HeapLoadErr
    \/ HeapCommit
    \/ HeapValues

SpecAlias == InitAlias /\ [][NextAlias]_vars

(***************************************************************************)
(* The accessor specification: the instance holds a map committed by a     *)
(* Load of two sources, and a goroutine calls the getters on the paths.    *)
(***************************************************************************)
Paths == {Ka, Kb, KA, Kab, <<"A", ".", "b">>, <<"a", ".", "B">>, <<"a", ".", "a">>,
          <<"b", ".", "a">>, <<"a", ".", "b", ".", "a">>, <<"a", ".">>, <<>>}

AccessResults == {EmptyMap, D1, D2, D3, D4, D5}

InitAccess ==
    /\ \E c1 \in AccessResults, c2 \in AccessResults :
          /\ values = Merge(Merge(EmptyMap, c1), c2)
          /\ committed = {values}
          /\ runs = <<[srcs |-> <<c1, c2>>, agg |-> values]>>
    /\ binding = "nil"
    /\ schema = FALSE
    /\ target = ZeroTarget
    /\ targetWas = target
    /\ environ = <<>>
    /\ pc = [t \in Threads |-> "idle"]
    /\ newValues = [t \in Threads |-> EmptyMap]
    /\ oldValues = [t \in Threads |-> EmptyMap]
    /\ idx = [t \in Threads |-> 0]
    /\ ret = [t \in Threads |-> IF t = 1 THEN "nil" ELSE "none"]
    /\ lastErr = [t \in Threads |-> NoError]
    /\ got = NoCall
    /\ loaded = [t \in Threads |-> <<>>]
    /\ trace = [t \in Threads |-> <<>>]
    /\ before = [t \in Threads |-> EmptyMap]
    /\ dirty = [t \in Threads |-> FALSE]
    /\ calls = 1
    /\ ndumpers = 0
    /\ NoDump
    /\ NoHeap

NextAccess ==
    \E key \in Paths :
        \/ ReadGet(key)
        \/ ReadGetStringE(key)
        \/ ReadGetIntE(key)
        \/ ReadGetBoolE(key)
        \/ ReadGetIntSliceE(key)
        \/ ReadGetStringMapE(key)
        \/ ReadGetString(key)
        \/ ReadGetInt(key)
        \/ ReadGetBool(key)
        \/ ReadGetIntSlice(key)
        \/ ReadGetStringMap(key)

SpecAccess == InitAccess /\ [][NextAccess]_vars


(***************************************************************************)
(* Properties of the Load pipeline under concurrent use (Spec).            *)
(***************************************************************************)
AllIdle == \A t \in Threads : pc[t] = "idle"

\* goroutine t's Load returns an error in this step
ReturnsError(t) == pc[t] # "idle" /\ pc'[t] = "idle" /\ ret'[t] = "err"

\* C1: a Load that fails leaves the committed Aggregate as it was: when a
\* Load that was called on a committed (or the empty) Aggregate returns an
\* error, and no other Load has committed since it was called or is still
\* running, Get returns on every key what it returned when the Load was called.
C1_FailedLoadLeavesGetUnchanged ==
    [][\A t \in Threads :
          (/\ ReturnsError(t)
           /\ before[t] \in committed \cup {EmptyMap}
           /\ ~dirty[t]
           /\ \A u \in Threads \ {t} : pc[u] = "idle") =>
              \A key \in Keys : Get(values', key) = Get(before[t], key)]_vars

\* C2: every Aggregate a reader obtains is the initial empty one or one that
\* a Load committed after its whole source-merge-validate-bind sequence
\* succeeded; never the working Aggregate of a Load still binding.
C2_ReaderSeesOnlyCommitted ==
    got.op # "none" => got.agg \in committed \cup {EmptyMap}

\* C3: once all concurrent Load calls have returned, the committed Aggregate
\* is the result of one of the Loads that returned success, or the one
\* committed before (here the empty one) if none succeeded: a Load that
\* returned an error has not changed it.
C3_QuiescentIsSomeSuccessfulLoad ==
    AllIdle => \/ values \in committed
               \/ committed = {} /\ values = EmptyMap

(***************************************************************************)
(* The order of the stages of one Load.                                    *)
(***************************************************************************)
\* the stages of a Load that succeeds, in the order the claim gives
Canon ==
    [n \in 1..NumSources |-> Stage("source", n)]
    \o (IF schema THEN <<Stage("schema", 0)>> ELSE <<>>)
    \o [n \in 1..NumValidators |-> Stage("validator", n)]
    \o (IF binding # "nil" THEN <<Stage("bind", 0)>> ELSE <<>>)
    \o (IF binding = "validating" THEN <<Stage("validate", 0)>> ELSE <<>>)
    \o <<Stage("commit", 0)>>

Failed(stage) == Stage(stage.st \o "Err", stage.n)

IsFailure(stage) ==
    stage.st \in {"sourceErr", "schemaErr", "validatorErr", "bindErr", "validateErr"}

\* C10: in every Load the stages run in the one order sources, schema
\* validator, custom validators in registration order, Binder, the target's
\* Validate, commit; the first failing stage ends the Load (nothing runs
\* after it: no later validator, no bind, no commit), and a Load returns nil
\* exactly when it ran every stage through the commit.
C10_StagesInOrderFirstFailureEnds ==
    \A t \in Threads :
        LET tr == trace[t] IN
        /\ Len(tr) <= Len(Canon)
        /\ \A n \in 1..Len(tr) :
              \/ tr[n] = Canon[n]
              \/ n = Len(tr) /\ tr[n] = Failed(Canon[n])
        /\ (pc[t] = "idle" /\ ret[t] = "nil") => tr = Canon
        /\ (pc[t] = "idle" /\ ret[t] = "err") => (tr # <<>> /\ IsFailure(tr[Len(tr)]))
        /\ (tr # <<>> /\ IsFailure(tr[Len(tr)])) =>
              (pc[t] = "restoreErr" \/ (pc[t] = "idle" /\ ret[t] = "err"))

\* a Load was ended by its first custom validator, after the sources
C10_Witness ==
    \E t \in Threads :
        /\ pc[t] = "idle" /\ ret[t] = "err"
        /\ trace[t] # <<>>
        /\ trace[t][Len(trace[t])] = Stage("validatorErr", 1)


(***************************************************************************)
(* Properties of the merge (SpecSeq).                                      *)
(***************************************************************************)
Max(S) == CHOOSE x \in S : \A y \in S : y <= x

\* the elements of a set of numbers as an increasing sequence
Ascending(S) ==
    [n \in 1..Cardinality(S) |-> CHOOSE x \in S : Cardinality({y \in S : y <= x}) = n]

\* The deep merge as the claim words it, key by key: a key holds the value
\* of the last map that has it, unless that value is a map, and then the
\* merge of the maps held there since the last non-map value.
RECURSIVE ExpectedMerge(_)
ExpectedMerge(ms) ==
    [k \in UNION {DOMAIN ms[n] : n \in 1..Len(ms)} |->
        LET has == {n \in 1..Len(ms) : k \in DOMAIN ms[n]}
            cut == Max({0} \cup {n \in has : ~IsMap(ms[n][k])})
            run == Ascending({n \in has : n > cut})
        IN  IF ~IsMap(ms[Max(has)][k]) THEN ms[Max(has)][k]
            ELSE MapV(ExpectedMerge([n \in 1..Len(run) |-> ms[run[n]][k].m]))]

\* the key paths of a map: <<k1, ..., kn>> with every ki but the last a map
RECURSIVE KeyPaths(_)
KeyPaths(m) ==
    {<<k>> : k \in DOMAIN m}
    \cup UNION {{<<k>> \o p : p \in KeyPaths(m[k].m)} : k \in {j \in DOMAIN m : IsMap(m[j])}}

\* the value at a key path that is in KeyPaths(m)
RECURSIVE At(_, _)
At(m, p) == IF Len(p) = 1 THEN m[p[1]] ELSE At(m[p[1]].m, Tail(p))

Leaves(m) == {p \in KeyPaths(m) : ~IsMap(At(m, p))}

\* goroutine 1's last Load returned nil and it is not inside another Load
Loaded == pc[1] = "idle" /\ ret[1] = "nil"

\* C4: the Aggregate a successful Load commits is the left-to-right deep
\* merge of the results its sources returned: maps at the same path are
\* unioned recursively, any other collision is decided for the later source,
\* and every leaf holds the value of the last source that defines it.
C4_CommittedIsDeepMerge ==
    Loaded =>
        /\ values = ExpectedMerge(loaded[1])
        /\ \A p \in Leaves(values) :
              LET has == {n \in 1..Len(loaded[1]) : p \in KeyPaths(loaded[1][n])}
              IN  has # {} /\ At(values, p) = At(loaded[1][Max(has)], p)

\* a Load merged two sources holding a map at the same key: one nested key
\* came from the first only, one was overridden by the second
C4_Witness ==
    /\ Loaded
    /\ loaded[1] = <<D5, D2>>
    /\ values = (Ka :> MapV((KB :> IntV(0)) @@ (Kb :> IntV(7)) @@ (Ka :> BoolV(TRUE))))
                @@ (Kb :> ListV(<<StrV(<<"x">>)>>))

ToLowerPath(p) == [n \in 1..Len(p) |-> ToLower(p[n])]

\* no two sibling keys that are equal under case-insensitive comparison
RECURSIVE NoFoldSiblings(_)
NoFoldSiblings(m) ==
    /\ \A j \in DOMAIN m, k \in DOMAIN m : ToLower(j) = ToLower(k) => j = k
    /\ \A k \in DOMAIN m : IsMap(m[k]) => NoFoldSiblings(m[k].m)

\* C5: sources that spell a key with different letter case contribute to one
\* leaf: the committed Aggregate never holds two sibling keys equal under
\* case-insensitive comparison, and every leaf holds the value of the last
\* source that defines it under any spelling.
C5_CaseInsensitiveMerge ==
    Loaded =>
        /\ NoFoldSiblings(values)
        /\ \A p \in Leaves(values) :
              LET has == {n \in 1..Len(loaded[1]) :
                             \E q \in KeyPaths(loaded[1][n]) : ToLowerPath(q) = ToLowerPath(p)}
              IN  \A q \in KeyPaths(loaded[1][Max(has)]) :
                     ToLowerPath(q) = ToLowerPath(p) => At(values, p) = At(loaded[1][Max(has)], q)

(***************************************************************************)
(* Properties of the accessors (SpecAccess).                               *)
(***************************************************************************)
\* C6: Get returns the same result for every letter-case variant of a path.
C6_GetIgnoresCase ==
    got.op = "Get" =>
        \A q \in Paths : ToLower(q) = ToLower(got.key) => Get(got.agg, q) = got.res

\* the substrings of s between the dots, by the positions of the dots
Segments(s) ==
    LET dots == {n \in 1..Len(s) : s[n] = "."}
        ends == Ascending(dots \cup {Len(s) + 1})
        starts == [n \in 1..Len(ends) |-> IF n = 1 THEN 1 ELSE ends[n - 1] + 1]
    IN  [n \in 1..Len(ends) |-> SubSeq(s, starts[n], ends[n] - 1)]

\* the walk as the claim words it: the value at the final segment, absent
\* as soon as a segment is missing or a non-final segment is not a map
RECURSIVE Walk(_, _)
Walk(m, segs) ==
    IF Head(segs) \notin DOMAIN m THEN NilV
    ELSE IF Len(segs) = 1 THEN m[Head(segs)]
    ELSE IF IsMap(m[Head(segs)]) THEN Walk(m[Head(segs)].m, Tail(segs))
    ELSE NilV

\* C7: Get(path) returns the value of the exact top-level key path if that
\* key exists, and otherwise walks the dot-separated segments through the
\* nested maps: the value at the final segment, or the absent marker as soon
\* as a segment is missing or a non-final segment is not a nested map.
C7_GetExactKeyThenWalk ==
    got.op = "Get" =>
        got.res = IF got.key \in DOMAIN got.agg THEN got.agg[got.key]
                  ELSE Walk(got.agg, Segments(got.key))

\* Get("a.b") on a map with the top-level key "a.b" and the nested a -> b:
\* the top-level key shadows the nested value
C7_Witness ==
    /\ got.op = "Get" /\ got.key = Kab
    /\ Kab \in DOMAIN got.agg
    /\ Ka \in DOMAIN got.agg /\ IsMap(got.agg[Ka]) /\ Kb \in DOMAIN got.agg[Ka].m
    /\ got.agg[Ka].m[Kb] # got.agg[Kab]
    /\ got.res = got.agg[Kab]

\* what each typed getter converts, and to what, stated from the value's
\* kind; the numerals among the model's strings are canonical decimals
CanInt(raw) ==
    \/ IsInt(raw) \/ IsBool(raw)
    \/ IsStr(raw) /\ \E n \in -99..99 : FormatInt(n) = raw.s

AgreesInt(raw, r) ==
    \/ IsInt(raw) /\ r = raw.i
    \/ IsBool(raw) /\ r = (IF raw.b THEN 1 ELSE 0)
    \/ IsStr(raw) /\ FormatInt(r) = raw.s

TrueWords == {<<"1">>, <<"t">>, <<"T">>, <<"t", "r", "u", "e">>,
              <<"T", "R", "U", "E">>, <<"T", "r", "u", "e">>}

FalseWords == {<<"0">>, <<"f">>, <<"F">>, <<"f", "a", "l", "s", "e">>,
               <<"F", "A", "L", "S", "E">>, <<"F", "a", "l", "s", "e">>}

Can(kind, raw) ==
    CASE kind = "String" -> IsStr(raw) \/ IsInt(raw) \/ IsBool(raw)
      [] kind = "Int" -> CanInt(raw)
      [] kind = "Bool" -> IsBool(raw) \/ IsInt(raw)
                          \/ (IsStr(raw) /\ raw.s \in TrueWords \cup FalseWords)
      [] kind = "IntSlice" -> IsList(raw) /\ \A n \in 1..Len(raw.l) : CanInt(raw.l[n])
      [] kind = "StringMap" -> IsMap(raw)

Agrees(kind, raw, res) ==
    CASE kind = "String" ->
            /\ IsStr(res)
            /\ \/ IsStr(raw) /\ res.s = raw.s
               \/ IsInt(raw) /\ ParseInt(res.s) = [v |-> raw.i, err |-> "nil"]
               \/ IsBool(raw) /\ ParseBool(res.s) = [v |-> raw.b, err |-> "nil"]
      [] kind = "Int" -> IsInt(res) /\ AgreesInt(raw, res.i)
      [] kind = "Bool" ->
            /\ IsBool(res)
            /\ \/ IsBool(raw) /\ res.b = raw.b
               \/ IsInt(raw) /\ res.b = (raw.i # 0)
               \/ IsStr(raw) /\ res.b = (raw.s \in TrueWords)
      [] kind = "IntSlice" ->
            /\ IsList(res) /\ Len(res.l) = Len(raw.l)
            /\ \A n \in 1..Len(raw.l) : AgreesInt(raw.l[n], res.l[n])
      [] kind = "StringMap" -> IsMap(res) /\ res.m = raw.m

Zero(kind) ==
    CASE kind = "String" -> StrV(<<>>)
      [] kind = "Int" -> IntV(0)
      [] kind = "Bool" -> BoolV(FALSE)
      [] kind = "IntSlice" -> ListV(<<>>)
      [] kind = "StringMap" -> MapV(EmptyMap)

Kinds == {"String", "Int", "Bool", "IntSlice", "StringMap"}

\* C8: an error-returning getter returns "key not found" when Get finds
\* nothing at the path, a cast error when the value found does not convert to
\* the getter's type, and otherwise the converted value with a nil error; a
\* nil error never comes with a missing or unconvertible entry.
C8_ErrorGettersReportAbsenceAndCast ==
    \A kind \in Kinds :
        got.op = "Get" \o kind \o "E" =>
            LET raw == Get(got.agg, got.key)
            IN  /\ IsNil(raw) => got.err = "notfound"
                /\ ~IsNil(raw) /\ ~Can(kind, raw) => got.err = "cast"
                /\ ~IsNil(raw) /\ Can(kind, raw) =>
                      got.err = "nil" /\ Agrees(kind, raw, got.res)
                /\ got.err = "nil" => ~IsNil(raw) /\ Can(kind, raw)

\* GetIntE found a string that is no numeral and returned a cast error
C8_Witness ==
    /\ got.op = "GetIntE"
    /\ IsStr(Get(got.agg, got.key))
    /\ got.err = "cast"

\* C9: a zero-value getter returns no error: the converted value when Get
\* finds a convertible value at the path, and the zero value of its type
\* when Get finds nothing or the value does not convert.
C9_ZeroGettersNeverFail ==
    \A kind \in Kinds :
        got.op = "Get" \o kind =>
            LET raw == Get(got.agg, got.key)
            IN  /\ got.err = "nil"
                /\ IF ~IsNil(raw) /\ Can(kind, raw)
                   THEN Agrees(kind, raw, got.res)
                   ELSE got.res = Zero(kind)

\* GetInt found the string "42" and returned the number 42
C9_Witness ==
    /\ got.op = "GetInt"
    /\ Get(got.agg, got.key) = StrV(<<"4", "2">>)
    /\ got.res = IntV(42)

C12_NonPointerBindingFailsEveryLoad ==
    binding = "nonptr" =>
        /\ committed = {}
        /\ \A t \in Threads :
              /\ ret[t] # "nil"
              /\ (pc[t] = "idle" /\ trace[t] # <<>>
                  /\ trace[t][Len(trace[t])] = Stage("bindErr", 0)) =>
                     lastErr[t] = Errorf("failed to create decoder", NotAPointer)
        /\ AllIdle => \A key \in Keys : Get(values, key) = NilV

EnvResult == OSEnvVarLoad(environ, EnvPrefix)

\* goroutine 1's Load has returned, and no source or validator failed it
PastValidators ==
    /\ pc[1] = "idle" /\ ret[1] # "none"
    /\ trace[1] # <<>>
    /\ trace[1][Len(trace[1])].st \notin {"sourceErr", "validatorErr"}

\* C14: with an environment source and a Binding Target with an int field,
\* Load succeeds and the field holds the number the environment string
\* spells, while the Aggregate leaf stays the string.
C14_EnvStringsBindToTypedFields ==
    (/\ PastValidators /\ binding = "ptr"
     /\ Kbar \in DOMAIN EnvResult /\ IsStr(EnvResult[Kbar])
     /\ ParseInt(EnvResult[Kbar].s).err = "nil") =>
        /\ ret[1] = "nil"
        /\ target.bar = ParseInt(EnvResult[Kbar].s).v
        /\ Get(values, Kbar) = EnvResult[Kbar]

\* an entry of the environment as the claims read it: it is selected when
\* it spells the prefix letter for letter and has an "="; its name lies
\* between the prefix and the first "=", its value after that "="
StartsWithPrefix(e) ==
    \A i \in 1..Len(EnvPrefix) : i <= Len(e) /\ e[i] = EnvPrefix[i]

FirstEq(e) == CHOOSE i \in 1..Len(e) : e[i] = "=" /\ \A j \in 1..(i - 1) : e[j] # "="

Selected ==
    {n \in 1..Len(environ) :
        StartsWithPrefix(environ[n]) /\ \E i \in 1..Len(environ[n]) : environ[n][i] = "="}

NameOf(e) == SubSeq(e, Len(EnvPrefix) + 1, FirstEq(e) - 1)

ValueOf(e) == SubSeq(e, FirstEq(e) + 1, Len(e))

\* the path an entry's name folds to: lower case, "_" read as "."
DotPath(e) ==
    [i \in 1..Len(NameOf(e)) |->
        IF NameOf(e)[i] = "_" THEN "." ELSE LowerChar(NameOf(e)[i])]

IsPrefixOf(p, q) == Len(p) <= Len(q) /\ SubSeq(q, 1, Len(p)) = p

\* two entries meet when the path of one leads to or through the other's
Meet(e, f) ==
    \/ IsPrefixOf(Segments(DotPath(e)), Segments(DotPath(f)))
    \/ IsPrefixOf(Segments(DotPath(f)), Segments(DotPath(e)))

\* the environment source has returned its result to goroutine 1's Load
EnvLoaded == Len(loaded[1]) = NumSources

\* C15: the environment source takes exactly the entries that start with
\* the prefix (letter case included), strips the prefix, lower-cases the
\* name and splits it at "_" into a path of nested maps: Get of the dotted
\* path returns the entry's value (unless a later entry meets that path),
\* and every leaf of the result is the value of a selected entry at the
\* path of its name.
C15_EnvFoldsPrefixedEntries ==
    EnvLoaded =>
        LET res == loaded[1][NumSources] IN
        /\ \A n \in Selected :
              (\A m \in Selected : m > n => ~Meet(environ[n], environ[m])) =>
                  Get(res, DotPath(environ[n])) = StrV(ValueOf(environ[n]))
        /\ \A p \in Leaves(res) :
              \E n \in Selected :
                  /\ Segments(DotPath(environ[n])) = p
                  /\ At(res, p) = StrV(ValueOf(environ[n]))

\* P_A_B=v is folded to a -> b, and p_a_b=y, whose prefix differs in letter
\* case only, is not
C15_Witness ==
    /\ Loaded
    /\ environ = << <<"p", "_", "a", "_", "b", "=", "y">>,
                    <<"P", "_", "A", "_", "B", "=", "v">> >>
    /\ loaded[1][NumSources] = (Ka :> MapV((Kb :> StrV(<<"v">>))))
    /\ Get(values, Kab) = StrV(<<"v">>)

\* the segments of an entry's path without the empty ones
CleanSegments(e) == SelectSeq(Segments(DotPath(e)), LAMBDA seg : seg # <<>>)

\* C16: empty segments made by consecutive underscores are dropped: an
\* entry's value is found at the dotted path of its non-empty segments
\* (unless a later entry meets that path), and the environment source never
\* creates a map key that is the empty string.
C16_EnvDropsEmptySegments ==
    EnvLoaded =>
        LET res == loaded[1][NumSources] IN
        /\ \A n \in Selected :
              (/\ CleanSegments(environ[n]) # <<>>
               /\ \A m \in Selected \ {n} :
                     /\ ~IsPrefixOf(CleanSegments(environ[n]), CleanSegments(environ[m]))
                     /\ ~IsPrefixOf(CleanSegments(environ[m]), CleanSegments(environ[n]))) =>
                  Get(res, Join(CleanSegments(environ[n]), ".")) = StrV(ValueOf(environ[n]))
        /\ \A p \in KeyPaths(res) : \A i \in 1..Len(p) : p[i] # <<>>

\* the environment without the entries that have no "="
WellFormed(env) == SelectSeq(env, LAMBDA e : \E i \in 1..Len(e) : e[i] = "=")

\* C17: Load tolerates, without an error, an environment entry that has no
\* "=" (the entry is skipped, every other entry is folded as if it were not
\* there) and a nil or empty source result (the Aggregate is the merge of
\* the other results); it returns nil then, and it returns a non-nil error
\* exactly when a stage of the pipeline failed.
C17_OnlyMalformedEntryAndNilResultTolerated ==
    /\ EnvLoaded =>
          loaded[1][NumSources] = OSEnvVarLoad(WellFormed(environ), EnvPrefix)
    /\ (pc[1] = "idle" /\ ret[1] # "none") =>
          /\ ret[1] = "err" <=> (trace[1] # <<>> /\ IsFailure(trace[1][Len(trace[1])]))
          /\ ret[1] = "nil" <=> lastErr[1] = NoError
          /\ ret[1] = "nil" =>
                values = ExpectedMerge(SelectSeq(loaded[1], LAMBDA conf : conf # EmptyMap))

\* a Load succeeded although its mock source returned nil and the
\* environment holds an entry without "="; the entry after it was folded
C17_Witness ==
    /\ Loaded
    /\ environ = << <<"P", "_", "X">>, <<"P", "_", "A", "_", "B", "=", "v">> >>
    /\ loaded[1][1] = EmptyMap
    /\ values = (Ka :> MapV((Kb :> StrV(<<"v">>))))

(***************************************************************************)
(* The shape of Load's errors (SpecSeq).                                   *)
(***************************************************************************)
\* the ConfigError the claim describes for the failure of the n-th source
SourceConfigError(n) == [type |-> "ConfigError", msg |-> <<"source", n, "load">>]

\* C18: every error Load returns is a ConfigError in front of its cause:
\* errors.As finds the ConfigError, which for a failing source names
\* "source[i]" and the operation "load", and errors.Is finds the cause
\* behind it.
C18_LoadErrorsAreConfigErrors ==
    \A t \in Threads :
        (pc[t] = "idle" /\ ret[t] = "err") =>
            LET last == trace[t][Len(trace[t])] IN
            /\ \E i \in 1..Len(lastErr[t]) : lastErr[t][i].type = "ConfigError"
            /\ last.st = "sourceErr" =>
                  /\ \E i \in 1..Len(lastErr[t]) : lastErr[t][i] = SourceConfigError(last.n)
                  /\ lastErr[t][Len(lastErr[t])] = SourceFailure[1]

(***************************************************************************)
(* Dump against a concurrent Load (SpecDump).                              *)
(***************************************************************************)
\* the dumpers are invoked at most once each and in registration order,
\* and none is invoked after one that failed
DumpInOrder ==
    /\ Len(dumped) <= ndumpers
    /\ \A i \in 1..Len(dumped) : dumped[i].n = i
    /\ \A i \in 1..(Len(dumped) - 1) : dumped[i].ok

\* what Dump returned matches what its dumpers returned
DumpResult ==
    /\ dumpRet = "err" =>
          /\ dumpAt = 0
          /\ Len(dumped) > 0
          /\ ~dumped[Len(dumped)].ok
    /\ dumpRet = "nil" =>
          /\ Len(dumped) = ndumpers
          /\ \A i \in 1..Len(dumped) : dumped[i].ok
    /\ (dumpAt = 0 /\ dumpRet = "none") => dumped = <<>>

\* what an invoked dumper was handed stays in its sink, whatever a later
\* dumper returns
DumpKept == \A i \in 1..Len(dumped) : sink[i] = MapV(dumped[i].agg)

\* every dumper was handed an Aggregate that a Load committed (the empty
\* one before the first commit)
DumpCommitted == \A i \in 1..Len(dumped) : dumped[i].agg \in committed \cup {EmptyMap}

\* C19: Dump invokes each registered dumper at most once, in registration
\* order, and hands it the committed Aggregate; the first dumper error ends
\* Dump and is returned, what earlier dumpers did stays done, and Dump
\* returns nil when no dumper fails, also when none is registered.
C19_DumpInOrderFirstErrorCommittedOnly ==
    /\ DumpInOrder
    /\ DumpResult
    /\ DumpKept
    /\ DumpCommitted

(***************************************************************************)
(* Load starts from nothing (SpecSeq).                                     *)
(***************************************************************************)
\* the key paths the source results of the n-th committed Load define
Defined(n) == UNION {KeyPaths(runs[n].srcs[k]) : k \in 1..Len(runs[n].srcs)}

Commits(t) == pc[t] = "commit" /\ pc'[t] = "idle" /\ ret'[t] = "nil"

\* C21: the pointer to the committed Aggregate is written by Load's locked
\* commit alone, once in a Load that succeeds and never in one that fails,
\* with or without a Binding Target: every step that changes what c.values
\* holds is the commit step of a Load returning nil.
C21_OnlyTheCommitWritesValues ==
    [][values' # values => \E t \in Threads : Commits(t)]_vars

(***************************************************************************)
(* A committed Aggregate and later Loads (SpecAlias).                      *)
(***************************************************************************)
\* C22: the Aggregate a reader obtained from Values() holds the same value
\* at every depth whatever later Loads do (in progress, failed or committed),
\* also when a source hands back the same nested map objects on every call.
C22_CommittedAggregateNeverChanges ==
    held.id # 0 => Deref(heap, held.id) = held.val

(***************************************************************************)
(* The source loop (SpecSeq).                                              *)
(***************************************************************************)
\* the invocations of sources in a Load's trace
SourcesOf(tr) == SelectSeq(tr, LAMBDA stage : stage.st \in {"source", "sourceErr"})

\* the sources of every Load are invoked in registration order, each at
\* most once, and a source that fails is the last thing its Load does
SourcesInOrder ==
    \A t \in Threads :
        LET ss == SourcesOf(trace[t]) IN
        /\ Len(ss) <= NumSources
        /\ \A n \in 1..Len(ss) : ss[n].n = n
        /\ \A n \in 1..Len(ss) :
              ss[n].st = "sourceErr" =>
                  /\ n = Len(ss)
                  /\ trace[t][Len(trace[t])] = ss[n]
                  /\ pc[t] = "idle"
                  /\ ret[t] = "err"
                  /\ lastErr[t] = SourceFailure
                  /\ Len(loaded[t]) = n - 1

\* the step in which a source fails returns the source's error and leaves
\* the values as they were: what the earlier sources gave is dropped
SourceErrorDiscards ==
    \A t \in Threads :
        (pc[t] = "sources" /\ trace'[t] = Append(trace[t], Stage("sourceErr", idx[t]))) =>
            /\ pc'[t] = "idle"
            /\ ret'[t] = "err"
            /\ lastErr'[t] = SourceFailure
            /\ newValues'[t] = EmptyMap
            /\ values' = values
            /\ committed' = committed
            /\ runs' = runs

AloneInLoad(t) ==
    /\ pc[t] # "idle"
    /\ \A u \in Threads \ {t} : pc[u] = "idle"
    /\ before[t] \in committed \cup {EmptyMap}
    /\ ~dirty[t]

\* C24: a read issued while another goroutine's Load is loading sources,
\* validating or binding is not blocked by that Load (the read can be taken
\* in every such state) and returns the Aggregate committed before that
\* Load was called.
C24_ReadDuringLoadSeesPrevious ==
    /\ []((\E t \in Threads : pc[t] # "idle") => ENABLED ReadValues)
    /\ [][\A t \in Threads :
            (AloneInLoad(t) /\ pc[t] # "commit" /\ got' # got) => got'.agg = before[t]]_vars

(***************************************************************************)
(* The Binding Target after a Load that failed while binding (SpecSeq).    *)
(***************************************************************************)
\* goroutine t's last Load returned the error of the stage st
FailedIn(t, st) ==
    /\ pc[t] = "idle"
    /\ ret[t] = "err"
    /\ trace[t] # <<>>
    /\ trace[t][Len(trace[t])].st = st

\* C25: when Load fails because decoding into the Binding Target fails or
\* because the target's Validate returns an error, the fields of the target
\* hold what they held when that Load was called.
C25_FailedBindLeavesTargetUnchanged ==
    \A t \in Threads :
        (FailedIn(t, "bindErr") \/ FailedIn(t, "validateErr")) => target = targetWas

(***************************************************************************)
(* The controller never gets stuck (SpecSeq).                              *)
(***************************************************************************)
\* C26: the controller starts Empty (Get returns nil for every key) and has
\* no terminal state: whatever the earlier Loads returned, Load can be
\* called again, a Load in progress can always take its next step, and a
\* Load whose sources, validators and binding all succeed returns nil and
\* makes the merge of its source results the committed Aggregate.
C26_NoTerminalState ==
    /\ calls = 0 => \A key \in Keys : Get(values, key) = NilV
    /\ (pc[1] = "idle" /\ calls < MaxLoads) => ENABLED LoadBegin(1)
    /\ pc[1] # "idle" => ENABLED NextSeq
    /\ (pc[1] = "idle" /\ trace[1] = Canon) =>
          /\ ret[1] = "nil"
          /\ runs # <<>>
          /\ runs[Len(runs)] = [srcs |-> loaded[1], agg |-> values]
          /\ values \in committed

\* the first Load failed, the second succeeded and its Aggregate, which is
\* not empty, is the committed one
C26_Witness ==
    /\ Loaded
    /\ calls = 2
    /\ Len(runs) = 1
    /\ values # EmptyMap
    /\ values = runs[1].agg

(***************************************************************************)
(* Scalars and maps in each other's way (SpecEnv).                         *)
(***************************************************************************)
\* the folded path of the n-th entry of the environment
PathOf(n) == Segments(DotPath(environ[n]))

\* path p leads through path q to something below it
Below(p, q) == IsPrefixOf(q, p) /\ Len(q) < Len(p)

\* no entry after the m-th meets the m-th entry's path
Last(m) == \A k \in Selected : k > m => ~Meet(environ[k], environ[m])

Blank(c) == c \in {" ", "\t", "\n", "\r"}

\* strings.TrimSpace
RECURSIVE TrimSpace(_)
TrimSpace(s) ==
    IF s = <<>> THEN s
    ELSE IF Blank(Head(s)) THEN TrimSpace(Tail(s))
    ELSE IF Blank(s[Len(s)]) THEN TrimSpace(SubSeq(s, 1, Len(s) - 1))
    ELSE s

\* no entry of the environment holds a newline
OneLineEach == \A n \in 1..Len(environ) : \A i \in 1..Len(environ[n]) : environ[n][i] # "\n"

\* C28: the value stored at the final segment of a folded entry is the
\* entry's value without its surrounding whitespace, as a string that is
\* not cast: P_K= v  stores "v" and P_BAR=1 stores the string "1".  (Values
\* with a newline are left to C30.)
C28_EnvValuesTrimmedRawStrings ==
    (EnvLoaded /\ OneLineEach) =>
        LET res == loaded[1][NumSources] IN
        \A n \in Selected :
            Last(n) => At(res, PathOf(n)) = StrV(TrimSpace(ValueOf(environ[n])))

(***************************************************************************)
(* One Dump, one Aggregate (SpecDump).                                     *)
(***************************************************************************)
\* C29: all dumpers invoked by one Dump call are handed the same Aggregate,
\* also when a Load commits between two of the invocations.
C29_OneDumpOneAggregate ==
    \A i \in 1..Len(dumped), j \in 1..Len(dumped) : dumped[i].agg = dumped[j].agg

\* C30: every entry the prefix selects contributes one leaf, at the path
\* its own name folds to, holding its whole value, further "=" and newlines
\* included: the result has no leaf that is not an entry's whole value at
\* that entry's path, and an entry that no later entry meets is found at its
\* path with its whole value.
C30_EnvEntryIsOneWholeLeaf ==
    EnvLoaded =>
        LET res == loaded[1][NumSources] IN
        /\ Cardinality(Leaves(res)) <= Cardinality(Selected)
        /\ \A p \in Leaves(res) :
              \E n \in Selected : PathOf(n) = p /\ At(res, p) = StrV(ValueOf(environ[n]))
        /\ \A n \in Selected :
              Last(n) =>
                  /\ PathOf(n) \in Leaves(res)
                  /\ At(res, PathOf(n)) = StrV(ValueOf(environ[n]))

=============================================================================
